---- MODULE Spec2Model ----
(***************************************************************************)
(* Request-safety core of the assessment backend: the in-memory rate       *)
(* limiter (middleware/rate_limiter.py), the CSRF token store              *)
(* (routers/csrf.py), the lead qualification rules                         *)
(* (services/qualification.py), the sanitizer (utils/sanitizer.py) and     *)
(* the handlers that store assessments and log emails (routers/).          *)
(*                                                                         *)
(* Each component has its own specification over its own variables; the    *)
(* variables of the other components are left unchanged by it.             *)
(*                                                                         *)
(* Text is modelled as a sequence of segments (each segment an atomic      *)
(* piece of text, "a" or ":" or "/health"): concatenation is \o and the    *)
(* substring test of get_limit is membership of the pattern segment.       *)
(* Python's None is the value None below.                                  *)
(***************************************************************************)
EXTENDS Integers, Sequences, FiniteSets, TLC

VARIABLES
    settings,     \* config.settings: RATE_LIMIT_ENABLED and the per-endpoint limits
    requests,     \* RateLimiter.requests: key -> list of request instants
    now,          \* time.time(), in ticks of 1/TicksPerSecond second
    admitted,     \* history: key -> instants at which check_rate_limit allowed a call
    rl_last,      \* history: the last rate limiter call and what it returned
    csrf_tokens,  \* csrf.csrf_tokens: token hash -> expiry instant
    utcnow,       \* datetime.utcnow(), in seconds
    issued,       \* history: token -> expiry returned by generate_csrf_token
    csrf_last,    \* history: the last CSRF call and what it returned
    q_input,      \* the answers (has_budget, budget_range, urgency) of the request
    q_verdict,    \* what determine_qualification_status returned for q_input
    q_reason,     \* what get_disqualification_reason returned for q_input
    q_first,      \* history: the first verdict returned for q_input
    san_in,       \* the raw text handed to a sanitizer function
    san_max,      \* the max_length handed to sanitize_text
    san_fn,       \* history: the sanitizer function called last
    san_out,      \* what that function returned
    threads,      \* per thread: its position inside check_rate_limit and its locals
    interleaved,  \* whether calls of different threads may interleave
    bindings,     \* key -> how many list objects self.requests[key] has been bound to
    assessments,  \* db.assessments: the assessment documents stored
    leads,        \* db.leads: the lead documents stored
    email_logs,   \* db.email_logs: the email-log documents stored
    uuids,        \* how many identifiers uuid.uuid4() has produced
    enable_email_results,  \* settings.ENABLE_EMAIL_RESULTS
    response      \* history: the last handler call, its inputs and its HTTP answer

rl_vars   == <<settings, requests, now, admitted, rl_last>>
csrf_vars == <<csrf_tokens, utcnow, issued, csrf_last>>
q_vars    == <<q_input, q_verdict, q_reason, q_first>>
san_vars  == <<san_in, san_max, san_fn, san_out>>
th_vars   == <<threads, interleaved, bindings>>
h_vars    == <<assessments, leads, email_logs, uuids, enable_email_results, response>>
vars      == <<rl_vars, csrf_vars, q_vars, san_vars, th_vars, h_vars>>

None == "<None>"

(***************************************************************************)
(* Bounds of the model.                                                    *)
(***************************************************************************)
\* Clock resolution: time.time() is a float; one second is this many ticks.
TicksPerSecond == 2
\* Largest per-endpoint limit the environment configures in the model.
MaxLimit == 2
\* Number of check_rate_limit / get_remaining calls in one run.
MaxCalls == 4

(***************************************************************************)
(* Rate limiter                                                            *)
(***************************************************************************)
window_seconds == 900
window_ticks == window_seconds * TicksPerSecond

\* Instants at which the clock is observed (ticks): around 0 and around
\* the end of the window of a request made at 0 or at 1 tick.
RLInstants == {0, 1, window_ticks - 1, window_ticks, window_ticks + 1}

\* The (client, endpoint) pairs that call the limiter.  The second and the
\* third are distinct pairs whose f"{ip}:{endpoint}" is the same text.
Pairs ==
    {<< <<"a">>, <<"/health">> >>,
     << <<"a">>, <<"b", ":", "/health">> >>,
     << <<"a", ":", "b">>, <<"/health">> >>,
     << <<"a">>, <<"/api/email/send-results">> >>}

\* "pattern in endpoint"
Contains(pattern, endpoint) == \E i \in 1..Len(endpoint) : endpoint[i] = pattern

\* f"{ip}:{endpoint}"
Key(ip, endpoint) == ip \o <<":">> \o endpoint

\* int(x) for x = ticks / TicksPerSecond: truncation toward zero.
IntSeconds(ticks) ==
    IF ticks >= 0 THEN ticks \div TicksPerSecond
    ELSE -((-ticks) \div TicksPerSecond)

Max(a, b) == IF a >= b THEN a ELSE b

RECURSIVE MinOf(_)
MinOf(s) ==
    IF Len(s) = 1 THEN s[1]
    ELSE LET m == MinOf(Tail(s)) IN IF s[1] <= m THEN s[1] ELSE m

\* self.requests[key] = value
Put(reqs, key, value) ==
    [k \in (DOMAIN reqs) \cup {key} |-> IF k = key THEN value ELSE reqs[k]]

\* Mutant of Prune: a request made exactly window_seconds ago is kept.
Prune_KeepsBoundary(lst, window_start) ==
    SelectSeq(lst, LAMBDA req_time : req_time >= window_start)

\* Mutant of Prune: the window is one tick short, a request made one tick
\* less than window_seconds ago is dropped.
Prune_ShortWindow(lst, window_start) ==
    SelectSeq(lst, LAMBDA req_time : req_time > window_start + 1)

\* [req_time for req_time in lst if req_time > window_start]
Prune(lst, window_start) == SelectSeq(lst, LAMBDA req_time : req_time > window_start)

DefaultLimit == 60

get_limit(endpoint) ==
    IF Contains("/api/assessment/submit", endpoint)
        THEN settings.RATE_LIMIT_SUBMIT_ASSESSMENT
    ELSE IF Contains("/api/assessment/save-progress", endpoint)
        THEN settings.RATE_LIMIT_SAVE_PROGRESS
    ELSE IF Contains("/api/email/send-results", endpoint)
        THEN settings.RATE_LIMIT_SEND_EMAIL
    ELSE IF Contains("/health", endpoint)
        THEN settings.RATE_LIMIT_HEALTH
    ELSE DefaultLimit

\* Mutant of check_rate_limit_enabled: the count is compared with > in
\* place of >=, so one request more than the limit is admitted.
check_rate_limit_enabled_OffByOne(reqs, t, ip, endpoint) ==
    LET limit == get_limit(endpoint)
        key == Key(ip, endpoint)
        window_start == t - window_ticks
        initial == IF key \in DOMAIN reqs THEN reqs[key] ELSE <<>>
        pruned == Prune(initial, window_start)
        stored == Put(reqs, key, pruned)
    IN IF Len(pruned) > limit
       THEN LET oldest_request == MinOf(pruned)
                retry_after == IntSeconds(oldest_request + window_ticks - t)
            IN [requests |-> stored, allowed |-> FALSE,
                retry_after |-> Max(retry_after, 0), raised |-> FALSE]
       ELSE [requests |-> Put(reqs, key, Append(pruned, t)), allowed |-> TRUE,
             retry_after |-> 0, raised |-> FALSE]

\* Mutant of check_rate_limit_enabled: a denied call is recorded too.
check_rate_limit_enabled_RecordsDenied(reqs, t, ip, endpoint) ==
    LET limit == get_limit(endpoint)
        key == Key(ip, endpoint)
        window_start == t - window_ticks
        initial == IF key \in DOMAIN reqs THEN reqs[key] ELSE <<>>
        pruned == Prune(initial, window_start)
        stored == Put(reqs, key, Append(pruned, t))
    IN IF Len(pruned) >= limit
       THEN IF pruned = <<>>
            THEN [requests |-> stored, allowed |-> FALSE, retry_after |-> 0,
                  raised |-> TRUE]
            ELSE LET oldest_request == MinOf(pruned)
                     retry_after == IntSeconds(oldest_request + window_ticks - t)
                 IN [requests |-> stored, allowed |-> FALSE,
                     retry_after |-> Max(retry_after, 0), raised |-> FALSE]
       ELSE [requests |-> stored, allowed |-> TRUE,
             retry_after |-> 0, raised |-> FALSE]

\* check_rate_limit with rate limiting enabled, at instant t on the store
\* reqs: the store it leaves and what it returns; raised = TRUE when min()
\* of an empty list raises ValueError (allowed and retry_after are then not
\* returned).
check_rate_limit_enabled(reqs, t, ip, endpoint) ==
    LET limit == get_limit(endpoint)
        key == Key(ip, endpoint)
        window_start == t - window_ticks
        initial == IF key \in DOMAIN reqs THEN reqs[key] ELSE <<>>
        pruned == Prune(initial, window_start)
        stored == Put(reqs, key, pruned)
    IN IF Len(pruned) >= limit
       THEN IF pruned = <<>>
            THEN [requests |-> stored, allowed |-> FALSE, retry_after |-> 0,
                  raised |-> TRUE]
            ELSE LET oldest_request == MinOf(pruned)
                     retry_after == IntSeconds(oldest_request + window_ticks - t)
                 IN [requests |-> stored, allowed |-> FALSE,
                     retry_after |-> Max(retry_after, 0), raised |-> FALSE]
       ELSE [requests |-> Put(reqs, key, Append(pruned, t)), allowed |-> TRUE,
             retry_after |-> 0, raised |-> FALSE]

\* Mutant of check_rate_limit: RATE_LIMIT_ENABLED is not consulted.
check_rate_limit_IgnoresDisabled(reqs, t, ip, endpoint) ==
    check_rate_limit_enabled(reqs, t, ip, endpoint)

\* check_rate_limit at instant t on the store reqs.
check_rate_limit(reqs, t, ip, endpoint) ==
    IF ~settings.RATE_LIMIT_ENABLED
    THEN [requests |-> reqs, allowed |-> TRUE, retry_after |-> 0, raised |-> FALSE]
    ELSE check_rate_limit_enabled(reqs, t, ip, endpoint)

\* Mutant of get_remaining: a key not seen yet reports the default limit.
get_remaining_UnknownDefault(reqs, t, ip, endpoint) ==
    LET key == Key(ip, endpoint)
        limit == get_limit(endpoint)
    IN IF key \notin DOMAIN reqs
       THEN [requests |-> reqs, remaining |-> DefaultLimit]
       ELSE LET pruned == Prune(reqs[key], t - window_ticks)
            IN [requests |-> Put(reqs, key, pruned),
                remaining |-> Max(limit - Len(pruned), 0)]

\* Mutant of get_remaining: a key not seen yet is created, as
\* check_rate_limit does.
get_remaining_CreatesKey(reqs, t, ip, endpoint) ==
    LET key == Key(ip, endpoint)
        limit == get_limit(endpoint)
        initial == IF key \in DOMAIN reqs THEN reqs[key] ELSE <<>>
        pruned == Prune(initial, t - window_ticks)
    IN [requests |-> Put(reqs, key, pruned),
        remaining |-> Max(limit - Len(pruned), 0)]

\* get_remaining at instant t: the store it leaves and the count it returns.
get_remaining(reqs, t, ip, endpoint) ==
    LET key == Key(ip, endpoint)
        limit == get_limit(endpoint)
    IN IF key \notin DOMAIN reqs
       THEN [requests |-> reqs, remaining |-> limit]
       ELSE LET pruned == Prune(reqs[key], t - window_ticks)
            IN [requests |-> Put(reqs, key, pruned),
                remaining |-> Max(limit - Len(pruned), 0)]

\* get_reset_time
get_reset_time(t) == IntSeconds(t + window_ticks)

NoCall ==
    [op |-> "none", ip |-> <<>>, endpoint |-> <<>>, allowed |-> FALSE,
     retry_after |-> 0, raised |-> FALSE, remaining |-> 0, calls |-> 0]

Limits == 0..MaxLimit

\* Settings: the limits come from the environment; the model configures
\* the health limit and leaves the other three at their defaults.
SettingsChoices ==
    [RATE_LIMIT_ENABLED : BOOLEAN,
     RATE_LIMIT_SUBMIT_ASSESSMENT : {5},
     RATE_LIMIT_SAVE_PROGRESS : {30},
     RATE_LIMIT_SEND_EMAIL : {3},
     RATE_LIMIT_HEALTH : Limits]

EmptyStore == [k \in {} |-> <<>>]

NoCsrfCall ==
    [op |-> "none", token |-> "", result |-> FALSE, expiry |-> 0, repeat |-> FALSE]

CsrfIdle ==
    /\ csrf_tokens = EmptyStore
    /\ utcnow = 0
    /\ issued = EmptyStore
    /\ csrf_last = NoCsrfCall

\* Marks a result variable whose function has not been called yet.
Uncalled == "<uncalled>"

\* A Python str as the sequence of its characters, and None where a str
\* is optional.
Str(chars) == [kind |-> "str", chars |-> chars]
NoneText == [kind |-> "None", chars |-> <<>>]
NotCalled == [kind |-> "uncalled", chars |-> <<>>]

DefaultMaxLength == 1000

SanIdle ==
    /\ san_in = NoneText
    /\ san_max = DefaultMaxLength
    /\ san_fn = "none"
    /\ san_out = NotCalled

\* The threads that call the limiter, and a thread outside any call.
Threads == {"t1", "t2"}
IdleThread ==
    [pc |-> "idle", ip |-> <<>>, endpoint |-> <<>>, now |-> 0, local |-> <<>>,
     ref |-> 0, allowed |-> FALSE, retry_after |-> 0, raised |-> FALSE,
     calls |-> 0]

ThIdle ==
    /\ threads = [th \in Threads |-> IdleThread]
    /\ interleaved = FALSE
    /\ bindings = EmptyStore

\* The answer of a handler that has not been called.
NoResponse ==
    [handler |-> "none", status |-> 0, error |-> "", assessmentId |-> 0,
     provider |-> "", db |-> "", calls |-> 0]

HIdle ==
    /\ assessments = {}
    /\ leads = {}
    /\ email_logs = {}
    /\ uuids = 0
    /\ enable_email_results = TRUE
    /\ response = NoResponse

QIdle ==
    /\ q_input = [has_budget |-> None, budget_range |-> None, urgency |-> None]
    /\ q_verdict = Uncalled
    /\ q_reason = Uncalled
    /\ q_first = Uncalled

RLInit ==
    /\ settings \in SettingsChoices
    /\ requests = EmptyStore
    /\ now = 0
    /\ admitted = EmptyStore
    /\ rl_last = NoCall

\* The clock moves forward to a later observed instant.
RLTick ==
    /\ \E t \in RLInstants : t > now /\ now' = t
    /\ UNCHANGED <<settings, requests, admitted, rl_last, csrf_vars, q_vars, san_vars, th_vars, h_vars>>

CheckRateLimit(ip, endpoint) ==
    /\ rl_last.calls < MaxCalls
    /\ LET r == check_rate_limit(requests, now, ip, endpoint)
           key == Key(ip, endpoint)
       IN /\ requests' = r.requests
          /\ admitted' =
                IF r.allowed /\ ~r.raised
                THEN Put(admitted, key,
                         Append(IF key \in DOMAIN admitted THEN admitted[key] ELSE <<>>,
                                now))
                ELSE admitted
          /\ rl_last' = [op |-> "check", ip |-> ip, endpoint |-> endpoint,
                         allowed |-> r.allowed, retry_after |-> r.retry_after,
                         raised |-> r.raised, remaining |-> 0,
                         calls |-> rl_last.calls + 1]
    /\ UNCHANGED <<settings, now, csrf_vars, q_vars, san_vars, th_vars, h_vars>>

GetRemaining(ip, endpoint) ==
    /\ rl_last.calls < MaxCalls
    /\ LET r == get_remaining(requests, now, ip, endpoint)
       IN /\ requests' = r.requests
          /\ rl_last' = [op |-> "remaining", ip |-> ip, endpoint |-> endpoint,
                         allowed |-> FALSE, retry_after |-> 0, raised |-> FALSE,
                         remaining |-> r.remaining, calls |-> rl_last.calls + 1]
    /\ UNCHANGED <<settings, now, admitted, csrf_vars, q_vars, san_vars, th_vars, h_vars>>

RLNext ==
    \/ RLTick
    \/ \E p \in Pairs : CheckRateLimit(p[1], p[2])
    \/ \E p \in Pairs : GetRemaining(p[1], p[2])

RLSpecInit == RLInit /\ CsrfIdle /\ QIdle /\ SanIdle /\ ThIdle /\ HIdle

SpecRateLimiter == RLSpecInit /\ [][RLNext]_vars

(***************************************************************************)
(* Rate limiter: properties                                                *)
(***************************************************************************)
\* The step is a call of check_rate_limit / of either operation.
RLCheckStep == rl_last'.calls = rl_last.calls + 1 /\ rl_last'.op = "check"
RLCallStep == rl_last'.calls = rl_last.calls + 1

\* Calls admitted for key at instants inside the window that ends at t.
AdmittedInWindow(key, t) ==
    IF key \in DOMAIN admitted
    THEN Cardinality({i \in 1..Len(admitted[key]) : admitted[key][i] > t - window_ticks})
    ELSE 0

\* C1: for a key whose endpoint limit is L >= 1, once L calls have been
\* admitted inside the trailing 900-second window, the next
\* check_rate_limit call for the key is denied and returns retry_after > 0.
C1_DeniedWithPositiveRetryAfter ==
    [][(/\ RLCheckStep
        /\ settings.RATE_LIMIT_ENABLED
        /\ get_limit(rl_last'.endpoint) >= 1
        /\ AdmittedInWindow(Key(rl_last'.ip, rl_last'.endpoint), now)
              >= get_limit(rl_last'.endpoint))
       => (~rl_last'.raised /\ ~rl_last'.allowed /\ rl_last'.retry_after > 0)]_vars

\* The part of C1 the code does keep: the call is denied, retry_after >= 0.
C1_Denied ==
    [][(/\ RLCheckStep
        /\ settings.RATE_LIMIT_ENABLED
        /\ get_limit(rl_last'.endpoint) >= 1
        /\ AdmittedInWindow(Key(rl_last'.ip, rl_last'.endpoint), now)
              >= get_limit(rl_last'.endpoint))
       => (~rl_last'.raised /\ ~rl_last'.allowed /\ rl_last'.retry_after >= 0)]_vars

\* C2: a key that was exhausted (L >= 1 requests recorded) is allowed
\* again, with retry_after = 0, by the first check_rate_limit call made 900
\* seconds or more after its oldest recorded request, and no request
\* recorded 900 seconds ago or earlier is left in its window.
C2_AllowedAfterWindow ==
    [][LET key == Key(rl_last'.ip, rl_last'.endpoint)
           limit == get_limit(rl_last'.endpoint)
       IN (/\ RLCheckStep
           /\ settings.RATE_LIMIT_ENABLED
           /\ limit >= 1
           /\ key \in DOMAIN requests
           /\ Len(requests[key]) >= limit
           /\ \E i \in 1..Len(requests[key]) :
                 /\ \A j \in 1..Len(requests[key]) : requests[key][i] <= requests[key][j]
                 /\ now >= requests[key][i] + window_ticks)
          => /\ ~rl_last'.raised
             /\ rl_last'.allowed
             /\ rl_last'.retry_after = 0
             /\ \A i \in 1..Len(requests'[key]) :
                   requests'[key][i] > now - window_ticks]_vars

\* C2 witness: a key with limit L took L requests, the oldest at instant
\* 0, and the call made exactly 900 seconds later has just been allowed.
C2_Witness ==
    LET key == Key(rl_last.ip, rl_last.endpoint)
    IN /\ rl_last.op = "check"
       /\ rl_last.allowed
       /\ settings.RATE_LIMIT_ENABLED
       /\ get_limit(rl_last.endpoint) >= 1
       /\ key \in DOMAIN admitted
       /\ Len(admitted[key]) = get_limit(rl_last.endpoint) + 1
       /\ admitted[key][1] + window_ticks = now
       /\ admitted[key][Len(admitted[key])] = now

\* What a check_rate_limit call returns.
Outcome(r) == <<r.allowed, r.retry_after, r.raised>>

\* C3: a call for one (client, endpoint) pair changes, for no other pair,
\* what check_rate_limit or get_remaining reports.
C3_PairsIsolated ==
    [][\A p \in Pairs :
          (RLCallStep /\ <<rl_last'.ip, rl_last'.endpoint>> # p)
          => /\ Outcome(check_rate_limit(requests', now', p[1], p[2]))
                  = Outcome(check_rate_limit(requests, now, p[1], p[2]))
             /\ get_remaining(requests', now', p[1], p[2]).remaining
                  = get_remaining(requests, now, p[1], p[2]).remaining]_vars

\* The same for pairs whose key text differs from the caller's.
C3_KeysIsolated ==
    [][\A p \in Pairs :
          (RLCallStep /\ Key(rl_last'.ip, rl_last'.endpoint) # Key(p[1], p[2]))
          => /\ Outcome(check_rate_limit(requests', now', p[1], p[2]))
                  = Outcome(check_rate_limit(requests, now, p[1], p[2]))
             /\ get_remaining(requests', now', p[1], p[2]).remaining
                  = get_remaining(requests, now, p[1], p[2]).remaining]_vars

(***************************************************************************)
(* CSRF token store                                                        *)
(*                                                                         *)
(* Instants are whole seconds.  secrets.token_urlsafe(32) is taken to      *)
(* return a value it has not returned before, and SHA-256 to be injective. *)
(***************************************************************************)
TOKEN_EXPIRY_MINUTES == 30
token_lifetime == TOKEN_EXPIRY_MINUTES * 60

\* Instants at which the clock is observed: around 0 and around the expiry
\* of tokens issued at 0, at 1 and at the expiry of the first.
CsrfInstants ==
    {0, 1, token_lifetime, token_lifetime + 1, token_lifetime + 2,
     2 * token_lifetime, 2 * token_lifetime + 1}

\* Values secrets.token_urlsafe(32) returns.
TokenValues == {"tokA", "tokB", "tokC"}

\* Values handed to verify_csrf_token: any token value, "" and None.
VerifyInputs == TokenValues \cup {"", None}

\* hashlib.sha256(token.encode()).hexdigest()
Hash(token) == <<"sha256", token>>

\* del csrf_tokens[token_hash]
Del(store, key) == [k \in (DOMAIN store) \ {key} |-> store[k]]

\* Mutant of clean_expired_tokens: an entry is dropped at its expiry instant.
clean_expired_tokens_AtExpiry(store, current_time) ==
    [h \in {k \in DOMAIN store : ~(store[k] <= current_time)} |-> store[h]]

clean_expired_tokens(store, current_time) ==
    [h \in {k \in DOMAIN store : ~(store[k] < current_time)} |-> store[h]]

\* Mutant of generate_csrf_token: expired entries are not pruned.
generate_csrf_token_NoClean(store, t, token) ==
    LET expiry == t + token_lifetime
        token_hash == Hash(token)
    IN [csrf_tokens |-> Put(store, token_hash, expiry),
        token |-> token, expiry |-> expiry]

\* generate_csrf_token at instant t, token being the random value drawn.
generate_csrf_token(store, t, token) ==
    LET cleaned == clean_expired_tokens(store, t)
        expiry == t + token_lifetime
        token_hash == Hash(token)
    IN [csrf_tokens |-> Put(cleaned, token_hash, expiry),
        token |-> token, expiry |-> expiry]

\* GET /csrf-token: the store it leaves, the cookie and the body.
get_csrf_token(store, t, token) ==
    LET g == generate_csrf_token(store, t, token)
    IN [csrf_tokens |-> g.csrf_tokens,
        cookie |-> [key |-> "csrf_token", value |-> g.token,
                    max_age |-> TOKEN_EXPIRY_MINUTES * 60],
        token |-> g.token, expiresAt |-> g.expiry]

\* Mutant of refresh_csrf_token: the tokens issued before are dropped.
refresh_csrf_token_InvalidatesOld(store, t, token) ==
    get_csrf_token(EmptyStore, t, token)

\* POST /csrf-token/refresh
refresh_csrf_token(store, t, token) == get_csrf_token(store, t, token)

\* Mutant of verify_csrf_token: a digest absent from the store is not
\* rejected (the lookup result is only tested for being expired).
verify_csrf_token_UnknownPasses(store, t, token) ==
    IF token = "" \/ token = None
    THEN [csrf_tokens |-> store, result |-> FALSE]
    ELSE LET token_hash == Hash(token)
         IN IF token_hash \in DOMAIN store /\ store[token_hash] < t
            THEN [csrf_tokens |-> Del(store, token_hash), result |-> FALSE]
            ELSE [csrf_tokens |-> store, result |-> TRUE]

\* Mutant of verify_csrf_token: a verified token is consumed.
verify_csrf_token_SingleUse(store, t, token) ==
    IF token = "" \/ token = None
    THEN [csrf_tokens |-> store, result |-> FALSE]
    ELSE LET token_hash == Hash(token)
         IN IF token_hash \notin DOMAIN store
            THEN [csrf_tokens |-> store, result |-> FALSE]
            ELSE IF store[token_hash] < t
            THEN [csrf_tokens |-> Del(store, token_hash), result |-> FALSE]
            ELSE [csrf_tokens |-> Del(store, token_hash), result |-> TRUE]

\* verify_csrf_token at instant t: the store it leaves and what it returns.
verify_csrf_token(store, t, token) ==
    IF token = "" \/ token = None
    THEN [csrf_tokens |-> store, result |-> FALSE]
    ELSE LET token_hash == Hash(token)
         IN IF token_hash \notin DOMAIN store
            THEN [csrf_tokens |-> store, result |-> FALSE]
            ELSE IF store[token_hash] < t
            THEN [csrf_tokens |-> Del(store, token_hash), result |-> FALSE]
            ELSE [csrf_tokens |-> store, result |-> TRUE]

RLIdle ==
    /\ settings = [RATE_LIMIT_ENABLED |-> TRUE, RATE_LIMIT_SUBMIT_ASSESSMENT |-> 5,
                   RATE_LIMIT_SAVE_PROGRESS |-> 30, RATE_LIMIT_SEND_EMAIL |-> 3,
                   RATE_LIMIT_HEALTH |-> 100]
    /\ requests = EmptyStore
    /\ now = 0
    /\ admitted = EmptyStore
    /\ rl_last = NoCall

CsrfInit ==
    /\ csrf_tokens = EmptyStore
    /\ utcnow = 0
    /\ issued = EmptyStore
    /\ csrf_last = NoCsrfCall

CsrfTick ==
    /\ \E t \in CsrfInstants : t > utcnow /\ utcnow' = t
    /\ UNCHANGED <<csrf_tokens, issued, csrf_last, rl_vars, q_vars, san_vars, th_vars, h_vars>>

GetCsrfToken ==
    \E token \in TokenValues \ DOMAIN issued :
        LET r == get_csrf_token(csrf_tokens, utcnow, token)
        IN /\ csrf_tokens' = r.csrf_tokens
           /\ issued' = Put(issued, r.token, r.expiresAt)
           /\ csrf_last' = [op |-> "issue", token |-> r.token, result |-> TRUE,
                            expiry |-> r.expiresAt, repeat |-> FALSE]
           /\ UNCHANGED <<utcnow, rl_vars, q_vars, san_vars, th_vars, h_vars>>

RefreshCsrfToken ==
    \E token \in TokenValues \ DOMAIN issued :
        LET r == refresh_csrf_token(csrf_tokens, utcnow, token)
        IN /\ csrf_tokens' = r.csrf_tokens
           /\ issued' = Put(issued, r.token, r.expiresAt)
           /\ csrf_last' = [op |-> "refresh", token |-> r.token, result |-> TRUE,
                            expiry |-> r.expiresAt, repeat |-> FALSE]
           /\ UNCHANGED <<utcnow, rl_vars, q_vars, san_vars, th_vars, h_vars>>

\* repeat: the call before this one verified the same token, and both
\* returned True.
VerifyCsrfToken(token) ==
    LET r == verify_csrf_token(csrf_tokens, utcnow, token)
    IN /\ csrf_tokens' = r.csrf_tokens
       /\ csrf_last' = [op |-> "verify", token |-> token, result |-> r.result,
                        expiry |-> 0,
                        repeat |-> /\ r.result
                                   /\ csrf_last.op = "verify"
                                   /\ csrf_last.token = token
                                   /\ csrf_last.result]
       /\ UNCHANGED <<utcnow, issued, rl_vars, q_vars, san_vars, th_vars, h_vars>>

CsrfNext ==
    \/ CsrfTick
    \/ GetCsrfToken
    \/ RefreshCsrfToken
    \/ \E token \in VerifyInputs : VerifyCsrfToken(token)

CsrfSpecInit == CsrfInit /\ RLIdle /\ QIdle /\ SanIdle /\ ThIdle /\ HIdle

SpecCsrf == CsrfSpecInit /\ [][CsrfNext]_vars

(***************************************************************************)
(* CSRF token store: properties                                            *)
(***************************************************************************)
\* C4: a token returned by generate_csrf_token verifies true at every
\* instant from its issue up to its expiry (issue + 30 minutes) and false
\* at every instant after it, whatever was issued or verified in between.
C4_ValidUntilExpiry ==
    \A token \in DOMAIN issued :
        verify_csrf_token(csrf_tokens, utcnow, token).result
            = (utcnow <= issued[token])

\* C4 witness: one token, issued 30 minutes ago, stands at its expiry and is
\* still valid, while another has just been verified false, its expiry
\* passed, other tokens having been issued in between.
C4_Witness ==
    /\ csrf_last.op = "verify"
    /\ csrf_last.token \in DOMAIN issued
    /\ ~csrf_last.result
    /\ issued[csrf_last.token] < utcnow
    /\ \E other \in DOMAIN issued :
          /\ issued[other] = utcnow
          /\ verify_csrf_token(csrf_tokens, utcnow, other).result

\* C5: verify_csrf_token returns True only for an issued token whose expiry
\* has not passed; for "", None and a token never issued it returns False
\* and leaves the store as it was.
C5_UnknownRejected ==
    \A token \in VerifyInputs :
        LET r == verify_csrf_token(csrf_tokens, utcnow, token)
        IN /\ r.result => (token \in DOMAIN issued /\ utcnow <= issued[token])
           /\ (token \in {"", None} \/ token \notin DOMAIN issued)
                 => (~r.result /\ r.csrf_tokens = csrf_tokens)

\* C5 witness: a token never issued has just been verified false while the
\* store holds an unexpired token.
C5_Witness ==
    /\ csrf_last.op = "verify"
    /\ csrf_last.token \in TokenValues \ DOMAIN issued
    /\ ~csrf_last.result
    /\ \E other \in DOMAIN issued :
          verify_csrf_token(csrf_tokens, utcnow, other).result

\* C6: a verify_csrf_token call that returns True leaves the store
\* unchanged, and the same token verifies true again at once and at every
\* later instant up to its expiry.
C6_VerifyDoesNotConsume ==
    [][\A token \in VerifyInputs :
          (VerifyCsrfToken(token) /\ csrf_last'.result)
          => /\ csrf_tokens' = csrf_tokens
             /\ \A t \in CsrfInstants :
                   (utcnow <= t /\ t <= issued[token])
                   => verify_csrf_token(csrf_tokens', t, token).result]_vars

\* C6 witness: the same token has been verified true twice in a row.
C6_Witness ==
    /\ csrf_last.op = "verify"
    /\ csrf_last.result
    /\ csrf_last.repeat

PyTrue == "True"
PyFalse == "False"

\* models.QualificationStatus
QUALIFIED == "qualified"
DISQUALIFIED == "disqualified"
PENDING == "pending"

\* The answers a request can carry: the tokens the rules name, one token
\* the rules do not know, and None.
HasBudgetValues == {PyTrue, PyFalse, None}
BudgetRangeValues ==
    {"under-5k", "5k-15k", "15k-30k", "over-30k", "not-sure", None}
UrgencyValues == {"immediate", "within-month", "few-months", "exploring", None}

QInputs ==
    [has_budget : HasBudgetValues, budget_range : BudgetRangeValues,
     urgency : UrgencyValues]

\* Mutant of determine_qualification_status: the final return is missing,
\* so the default case returns None.
determine_qualification_status_NoDefault(has_budget, budget_range, urgency) ==
    IF has_budget = PyFalse THEN DISQUALIFIED
    ELSE IF budget_range = "under-5k" THEN DISQUALIFIED
    ELSE IF budget_range \in {"15k-30k", "over-30k"} THEN QUALIFIED
    ELSE IF urgency \in {"immediate", "within-month"} THEN QUALIFIED
    ELSE IF budget_range = "5k-15k" \/ urgency = "few-months" THEN PENDING
    ELSE None

\* Mutant of determine_qualification_status: the urgency rule is tested
\* before the under-5k rule.
determine_qualification_status_UrgencyFirst(has_budget, budget_range, urgency) ==
    IF has_budget = PyFalse THEN DISQUALIFIED
    ELSE IF urgency \in {"immediate", "within-month"} THEN QUALIFIED
    ELSE IF budget_range = "under-5k" THEN DISQUALIFIED
    ELSE IF budget_range \in {"15k-30k", "over-30k"} THEN QUALIFIED
    ELSE IF budget_range = "5k-15k" \/ urgency = "few-months" THEN PENDING
    ELSE PENDING

\* Mutant of determine_qualification_status: "not has_budget" in place of
\* "has_budget is False", so an absent answer disqualifies.
determine_qualification_status_AbsentIsNo(has_budget, budget_range, urgency) ==
    IF has_budget = PyFalse \/ has_budget = None THEN DISQUALIFIED
    ELSE IF budget_range = "under-5k" THEN DISQUALIFIED
    ELSE IF budget_range \in {"15k-30k", "over-30k"} THEN QUALIFIED
    ELSE IF urgency \in {"immediate", "within-month"} THEN QUALIFIED
    ELSE IF budget_range = "5k-15k" \/ urgency = "few-months" THEN PENDING
    ELSE PENDING

determine_qualification_status(has_budget, budget_range, urgency) ==
    IF has_budget = PyFalse THEN DISQUALIFIED
    ELSE IF budget_range = "under-5k" THEN DISQUALIFIED
    ELSE IF budget_range \in {"15k-30k", "over-30k"} THEN QUALIFIED
    ELSE IF urgency \in {"immediate", "within-month"} THEN QUALIFIED
    ELSE IF budget_range = "5k-15k" \/ urgency = "few-months" THEN PENDING
    ELSE PENDING

\* Mutant of get_disqualification_reason: "not has_budget" in place of
\* "has_budget is False", so an absent answer counts as no budget.
get_disqualification_reason_Falsy(has_budget, budget_range, urgency) ==
    IF has_budget = PyFalse \/ has_budget = None
        THEN "No budget allocated for treatment"
    ELSE IF budget_range = "under-5k" THEN "Budget below minimum treatment cost"
    ELSE None

get_disqualification_reason(has_budget, budget_range, urgency) ==
    IF has_budget = PyFalse THEN "No budget allocated for treatment"
    ELSE IF budget_range = "under-5k" THEN "Budget below minimum treatment cost"
    ELSE None

QInit ==
    /\ q_input \in QInputs
    /\ q_verdict = Uncalled
    /\ q_reason = Uncalled
    /\ q_first = Uncalled

DetermineQualificationStatus ==
    /\ q_verdict' = determine_qualification_status(
                        q_input.has_budget, q_input.budget_range, q_input.urgency)
    /\ q_first' = IF q_first = Uncalled THEN q_verdict' ELSE q_first
    /\ UNCHANGED <<q_input, q_reason, rl_vars, csrf_vars, san_vars, th_vars, h_vars>>

GetDisqualificationReason ==
    /\ q_reason' = get_disqualification_reason(
                       q_input.has_budget, q_input.budget_range, q_input.urgency)
    /\ UNCHANGED <<q_input, q_verdict, q_first, rl_vars, csrf_vars, san_vars, th_vars, h_vars>>

QNext ==
    \/ DetermineQualificationStatus
    \/ GetDisqualificationReason

QSpecInit == QInit /\ RLIdle /\ CsrfIdle /\ SanIdle /\ ThIdle /\ HIdle

SpecQualification == QSpecInit /\ [][QNext]_vars

(***************************************************************************)
(* Lead qualification: properties                                          *)
(***************************************************************************)
\* C8: for every has_budget, budget_range and urgency (known token,
\* unknown token or absent) determine_qualification_status returns one of
\* Qualified, Disqualified, Pending, and every call for the same input
\* returns the verdict the first call returned.
C8_TotalAndDeterministic ==
    q_verdict # Uncalled
    => /\ q_verdict \in {QUALIFIED, DISQUALIFIED, PENDING}
       /\ q_verdict = q_first

\* C8 witness: the all-absent input has been classified.
C8_Witness ==
    /\ q_input = [has_budget |-> None, budget_range |-> None, urgency |-> None]
    /\ q_verdict = PENDING

C10_ReasonIffDisqualified ==
    (q_verdict # Uncalled /\ q_reason # Uncalled)
    => /\ (q_verdict = DISQUALIFIED) <=> (q_reason # None /\ q_reason # "")
       /\ (q_verdict \in {QUALIFIED, PENDING}) => q_reason = None

\* C10 witness: both functions were called for an input with has_budget
\* absent and a budget under 5k: Disqualified, with the rule 2 reason.
C10_Witness ==
    /\ q_input.has_budget = None
    /\ q_input.budget_range = "under-5k"
    /\ q_verdict = DISQUALIFIED
    /\ q_reason = "Budget below minimum treatment cost"

\* Budget of 15k or more, or urgency within a month.
QualifyingAnswers ==
    \/ q_input.budget_range \in {"15k-30k", "over-30k"}
    \/ q_input.urgency \in {"immediate", "within-month"}

RLRemainingStep == rl_last'.calls = rl_last.calls + 1 /\ rl_last'.op = "remaining"

\* The requests recorded for key that are inside the window ending at t.
RecordedInWindow(reqs, key, t) ==
    IF key \in DOMAIN reqs
    THEN SelectSeq(reqs[key], LAMBDA x : t - x < window_ticks)
    ELSE <<>>

\* C12: in every reachable state and for every (client, endpoint),
\* get_remaining returns r with 0 <= r <= the limit of the endpoint.
C12_RemainingInRange ==
    /\ \A p \in Pairs :
          LET r == get_remaining(requests, now, p[1], p[2]).remaining
          IN 0 <= r /\ r <= get_limit(p[2])
    /\ rl_last.op = "remaining"
          => (0 <= rl_last.remaining /\ rl_last.remaining <= get_limit(rl_last.endpoint))

\* C12 witness: get_remaining has just reported 0 for an exhausted key
\* while an unused pair still has its whole limit.
C12_Witness ==
    /\ rl_last.op = "remaining"
    /\ get_limit(rl_last.endpoint) >= 1
    /\ rl_last.remaining = 0
    /\ \E p \in Pairs :
          get_remaining(requests, now, p[1], p[2]).remaining = get_limit(p[2])

\* C13: get_remaining returns max(0, limit - requests recorded inside the
\* window), creates no key, records no request, and leaves the outcome of
\* every later check_rate_limit call as it was.
C13_RemainingReadOnly ==
    [][RLRemainingStep
       => LET key == Key(rl_last'.ip, rl_last'.endpoint)
              limit == get_limit(rl_last'.endpoint)
          IN /\ rl_last'.remaining
                   = Max(0, limit - Len(RecordedInWindow(requests, key, now)))
             /\ DOMAIN requests' = DOMAIN requests
             /\ admitted' = admitted
             /\ \A k \in DOMAIN requests :
                   RecordedInWindow(requests', k, now)
                       = RecordedInWindow(requests, k, now)
             /\ \A p \in Pairs : \A t \in RLInstants :
                   t >= now
                   => Outcome(check_rate_limit(requests', t, p[1], p[2]))
                         = Outcome(check_rate_limit(requests, t, p[1], p[2]))]_vars

\* C13 witness: get_remaining was called for a key never seen, which was
\* not created, while another key holds requests.
C13_Witness ==
    /\ rl_last.op = "remaining"
    /\ Key(rl_last.ip, rl_last.endpoint) \notin DOMAIN requests
    /\ rl_last.remaining = get_limit(rl_last.endpoint)
    /\ \E k \in DOMAIN requests : requests[k] # <<>>

\* C14: check_rate_limit never raises: for every limit >= 0, a limit of 0
\* included, it returns (allowed, retry_after) with retry_after >= 0.
C14_NeverRaises ==
    rl_last.op = "check" => (~rl_last.raised /\ rl_last.retry_after >= 0)

\* C14 for limits >= 1, where the code does return.
C14_NeverRaisesPositiveLimit ==
    (rl_last.op = "check" /\ get_limit(rl_last.endpoint) >= 1)
    => (~rl_last.raised /\ rl_last.retry_after >= 0)

\* C15: after any call no key holds more timestamps than the limit of its
\* endpoint, and every timestamp of the key just accessed is newer than
\* the access instant minus 900 seconds.
C15_WindowsBounded ==
    [][RLCallStep
       => /\ \A p \in Pairs :
                Key(p[1], p[2]) \in DOMAIN requests'
                => Len(requests'[Key(p[1], p[2])]) <= get_limit(p[2])
          /\ LET key == Key(rl_last'.ip, rl_last'.endpoint)
             IN key \in DOMAIN requests'
                => \A i \in 1..Len(requests'[key]) :
                      requests'[key][i] > now - window_ticks]_vars

\* C15 witness: a key holds as many timestamps as its limit (>= 1) after a
\* call that pruned an older admitted request of the key.
C15_Witness ==
    LET key == Key(rl_last.ip, rl_last.endpoint)
    IN /\ rl_last.op = "check"
       /\ settings.RATE_LIMIT_ENABLED
       /\ get_limit(rl_last.endpoint) >= 1
       /\ key \in DOMAIN requests
       /\ Len(requests[key]) = get_limit(rl_last.endpoint)
       /\ Len(admitted[key]) > Len(requests[key])

\* C16: with RATE_LIMIT_ENABLED false every check_rate_limit call returns
\* (True, 0) and leaves the stored windows unchanged.
C16_DisabledAllowsAll ==
    [][(RLCheckStep /\ ~settings.RATE_LIMIT_ENABLED)
       => /\ rl_last'.allowed
          /\ rl_last'.retry_after = 0
          /\ ~rl_last'.raised
          /\ requests' = requests]_vars

\* C16 witness: rate limiting is disabled, the health limit is 0, and a
\* second call for a health endpoint has been allowed, nothing stored.
C16_Witness ==
    /\ ~settings.RATE_LIMIT_ENABLED
    /\ settings.RATE_LIMIT_HEALTH = 0
    /\ rl_last.op = "check"
    /\ Contains("/health", rl_last.endpoint)
    /\ rl_last.allowed
    /\ rl_last.calls >= 2
    /\ requests = EmptyStore

C19_IssuePrunesExpired ==
    [][(GetCsrfToken \/ RefreshCsrfToken)
       => /\ \A h \in DOMAIN csrf_tokens' : ~(csrf_tokens'[h] < utcnow)
          /\ Hash(csrf_last'.token) \in DOMAIN csrf_tokens'
          /\ Cardinality(DOMAIN csrf_tokens')
                <= Cardinality({token \in DOMAIN issued' :
                                   issued'[token] - token_lifetime
                                       >= utcnow - token_lifetime})]_vars

\* C19 witness: a token has just been issued; an expired token is gone
\* from the store, which holds the new token and an older unexpired one.
C19_Witness ==
    /\ csrf_last.op \in {"issue", "refresh"}
    /\ Cardinality(DOMAIN csrf_tokens) = 2
    /\ \E token \in DOMAIN issued :
          /\ issued[token] < utcnow
          /\ Hash(token) \notin DOMAIN csrf_tokens
    /\ csrf_last.expiry = utcnow + token_lifetime

(***************************************************************************)
(* Sanitizer                                                               *)
(*                                                                         *)
(* A str is the sequence of its characters.  The regular expressions are   *)
(* computed as re.sub computes them: leftmost match first, the scan        *)
(* resuming after each match.                                              *)
(***************************************************************************)
\* Longest text of the enumerated inputs.
MaxTextLen == 3

UpperLetters ==
    <<"A", "B", "C", "D", "E", "F", "G", "H", "I", "J", "K", "L", "M",
      "N", "O", "P", "Q", "R", "S", "T", "U", "V", "W", "X", "Y", "Z">>
LowerLetters ==
    <<"a", "b", "c", "d", "e", "f", "g", "h", "i", "j", "k", "l", "m",
      "n", "o", "p", "q", "r", "s", "t", "u", "v", "w", "x", "y", "z">>
DigitChars == {"0", "1", "2", "3", "4", "5", "6", "7", "8", "9"}

\* \s, \d and \w on the characters of the model.
WhitespaceChars == {" ", "\t", "\n"}
WordChars ==
    {UpperLetters[i] : i \in 1..26} \cup {LowerLetters[i] : i \in 1..26}
        \cup DigitChars \cup {"_"}

\* re.IGNORECASE: characters are compared in lower case.
Lower(c) ==
    IF \E i \in 1..26 : UpperLetters[i] = c
    THEN LowerLetters[CHOOSE i \in 1..26 : UpperLetters[i] = c]
    ELSE c

\* The pattern (in lower case) matches s at position i, case ignored.
MatchesAt(s, i, pattern) ==
    /\ i >= 1
    /\ i + Len(pattern) - 1 <= Len(s)
    /\ \A k \in 1..Len(pattern) : Lower(s[i + k - 1]) = pattern[k]

\* text[:max_length]
Truncate(text, max_length) ==
    SubSeq(text, 1, IF Len(text) <= max_length THEN Len(text) ELSE max_length)

\* html.escape of one character (quote=True).
EscapeChar(c) ==
    CASE c = "&" -> <<"&", "a", "m", "p", ";">>
      [] c = "<" -> <<"&", "l", "t", ";">>
      [] c = ">" -> <<"&", "g", "t", ";">>
      [] c = "\"" -> <<"&", "q", "u", "o", "t", ";">>
      [] c = "'" -> <<"&", "#", "x", "2", "7", ";">>
      [] OTHER -> <<c>>

\* html.escape(text)
RECURSIVE html_escape(_)
html_escape(text) ==
    IF text = <<>> THEN <<>>
    ELSE EscapeChar(Head(text)) \o html_escape(Tail(text))

\* The least of a set of positions, or 0 when there is none.
FirstOf(positions) ==
    IF positions = {} THEN 0
    ELSE CHOOSE j \in positions : \A k \in positions : j <= k

ScriptOpen == <<"<", "s", "c", "r", "i", "p", "t">>
ScriptClose == <<"<", "/", "s", "c", "r", "i", "p", "t", ">">>

\* r'<script[^>]*>.*?</script>' with IGNORECASE | DOTALL: the position of
\* the last character of the match that starts at i, or 0.
ScriptMatchEnd(s, i) ==
    IF ~MatchesAt(s, i, ScriptOpen) THEN 0
    ELSE LET gt == FirstOf({j \in (i + Len(ScriptOpen))..Len(s) : s[j] = ">"})
         IN IF gt = 0 THEN 0
            ELSE LET close == FirstOf({j \in (gt + 1)..Len(s) :
                                            MatchesAt(s, j, ScriptClose)})
                 IN IF close = 0 THEN 0 ELSE close + Len(ScriptClose) - 1

\* The end of the longest run of characters of class starting at i
\* (i - 1 when s[i] is not of the class).
RECURSIVE RunEnd(_, _, _)
RunEnd(s, i, class) ==
    IF i <= Len(s) /\ s[i] \in class THEN RunEnd(s, i + 1, class) ELSE i - 1

\* r'on\w+\s*=\s*["\']?[^"\']*["\']?' with IGNORECASE: the position of the
\* last character of the match that starts at i, or 0.
EventMatchEnd(s, i) ==
    IF ~MatchesAt(s, i, <<"o", "n">>) THEN 0
    ELSE LET word == RunEnd(s, i + 2, WordChars)
             eq == RunEnd(s, word + 1, WhitespaceChars) + 1
         IN IF word < i + 2 \/ eq > Len(s) \/ s[eq] # "=" THEN 0
            ELSE LET quote1 == RunEnd(s, eq + 1, WhitespaceChars) + 1
                     body == IF quote1 <= Len(s) /\ s[quote1] \in {"\"", "'"}
                             THEN quote1 + 1 ELSE quote1
                     quote2 == FirstOf({j \in body..Len(s) : s[j] \in {"\"", "'"}})
                 IN IF quote2 = 0 THEN Len(s) ELSE quote2

\* re.sub(r'<script[^>]*>.*?</script>', '', s), scanning from position i.
RECURSIVE RemoveScriptFrom(_, _)
RemoveScriptFrom(s, i) ==
    IF i > Len(s) THEN <<>>
    ELSE LET e == ScriptMatchEnd(s, i)
         IN IF e >= i THEN RemoveScriptFrom(s, e + 1)
            ELSE <<s[i]>> \o RemoveScriptFrom(s, i + 1)

\* re.sub(r'on\w+\s*=\s*["\']?[^"\']*["\']?', '', s), scanning from position i.
RECURSIVE RemoveEventFrom(_, _)
RemoveEventFrom(s, i) ==
    IF i > Len(s) THEN <<>>
    ELSE LET e == EventMatchEnd(s, i)
         IN IF e >= i THEN RemoveEventFrom(s, e + 1)
            ELSE <<s[i]>> \o RemoveEventFrom(s, i + 1)

remove_script_tags(s) == RemoveScriptFrom(s, 1)
remove_event_handlers(s) == RemoveEventFrom(s, 1)

\* str.strip()
RECURSIVE StripLeft(_)
StripLeft(s) ==
    IF s # <<>> /\ Head(s) \in WhitespaceChars THEN StripLeft(Tail(s)) ELSE s
RECURSIVE StripRight(_)
StripRight(s) ==
    IF s # <<>> /\ s[Len(s)] \in WhitespaceChars
    THEN StripRight(SubSeq(s, 1, Len(s) - 1)) ELSE s
Strip(s) == StripRight(StripLeft(s))

sanitize_text(text, max_length) ==
    IF text.kind = "None" \/ text.chars = <<>> THEN Str(<<>>)
    ELSE LET truncated == Truncate(text.chars, max_length)
             escaped == html_escape(truncated)
             noscript == remove_script_tags(escaped)
             nohandler == remove_event_handlers(noscript)
         IN Str(Strip(nohandler))

\* [^\d\s\-\+\(\)]: the characters sanitize_phone removes are the others.
PhoneChars == DigitChars \cup WhitespaceChars \cup {"-", "+", "(", ")"}

\* Mutant of sanitize_phone: the cleaned text is returned even when
\* nothing is left of it.
sanitize_phone_KeepsEmpty(phone) ==
    IF phone.kind = "None" \/ phone.chars = <<>> THEN NoneText
    ELSE Str(Strip(SelectSeq(phone.chars, LAMBDA c : c \in PhoneChars)))

sanitize_phone(phone) ==
    IF phone.kind = "None" \/ phone.chars = <<>> THEN NoneText
    ELSE LET cleaned == SelectSeq(phone.chars, LAMBDA c : c \in PhoneChars)
         IN IF cleaned # <<>> THEN Str(Strip(cleaned)) ELSE NoneText

\* "<script>alert(1)</script>Hello"
ScriptExample ==
    <<"<", "s", "c", "r", "i", "p", "t", ">", "a", "l", "e", "r", "t", "(",
      "1", ")", "<", "/", "s", "c", "r", "i", "p", "t", ">", "H", "e", "l",
      "l", "o">>
\* "<SCRIPT>\n</Script> x onload = 'a' y"
MixedExample ==
    <<"<", "S", "C", "R", "I", "P", "T", ">", "\n", "<", "/", "S", "c", "r",
      "i", "p", "t", ">", " ", "x", " ", "o", "n", "l", "o", "a", "d", " ",
      "=", " ", "'", "a", "'", " ", "y">>
\* "+1 (555) 010-9999 ext"
PhoneExample ==
    <<"+", "1", " ", "(", "5", "5", "5", ")", " ", "0", "1", "0", "-", "9",
      "9", "9", "9", " ", "e", "x", "t">>

\* The characters of the enumerated inputs.
InputChars == {"1", " ", "a", "<", "("}

RECURSIVE TextsUpTo(_)
TextsUpTo(n) ==
    IF n = 0 THEN {<<>>}
    ELSE LET shorter == TextsUpTo(n - 1)
         IN shorter \cup {Append(t, c) : t \in shorter, c \in InputChars}

\* The raw inputs: None, every text of up to MaxTextLen characters and the
\* examples.
SanInputs ==
    {NoneText} \cup {Str(t) : t \in TextsUpTo(MaxTextLen)}
        \cup {Str(ScriptExample), Str(MixedExample), Str(PhoneExample)}

\* max_length: the default and a short one that cuts the examples.
MaxLengths == {DefaultMaxLength, 2 * MaxTextLen}

SanInit ==
    /\ san_in \in SanInputs
    /\ san_max \in MaxLengths
    /\ san_fn = "none"
    /\ san_out = NotCalled

SanitizeText ==
    /\ san_out' = sanitize_text(san_in, san_max)
    /\ san_fn' = "text"
    /\ UNCHANGED <<san_in, san_max, rl_vars, csrf_vars, q_vars, th_vars, h_vars>>

SanitizePhone ==
    /\ san_out' = sanitize_phone(san_in)
    /\ san_fn' = "phone"
    /\ UNCHANGED <<san_in, san_max, rl_vars, csrf_vars, q_vars, th_vars, h_vars>>

SanNext ==
    \/ SanitizeText
    \/ SanitizePhone

SanSpecInit == SanInit /\ RLIdle /\ CsrfIdle /\ QIdle /\ ThIdle /\ HIdle

SpecSanitizer == SanSpecInit /\ [][SanNext]_vars

(***************************************************************************)
(* Sanitizer properties                                                    *)
(***************************************************************************)
\* The call returned: sanitize_text or sanitize_phone acted on a str input.
SanTextCalled == san_fn = "text" /\ san_in.kind = "str"
SanPhoneCalled == san_fn = "phone"

\* C17: sanitize_text removes every <script>...</script> region of its
\* input (case ignored, across line boundaries) with its content and
\* returns the escaped, trimmed remainder, so the result is the result for
\* the input without its script regions, and
\* sanitize_text("<script>alert(1)</script>Hello", 1000) is "Hello".
C17_ScriptRegionsRemoved ==
    (SanTextCalled /\ san_max = DefaultMaxLength) =>
        /\ san_out =
               sanitize_text(Str(remove_script_tags(san_in.chars)), san_max)
        /\ san_in = Str(ScriptExample) =>
               san_out = Str(<<"H", "e", "l", "l", "o">>)

\* The characters sanitize_phone is to keep, in their order.
RECURSIVE PhoneKept(_)
PhoneKept(chars) ==
    IF chars = <<>> THEN <<>>
    ELSE (IF Head(chars) \in DigitChars \cup WhitespaceChars
                                 \cup {"-", "+", "(", ")"}
          THEN <<Head(chars)>> ELSE <<>>) \o PhoneKept(Tail(chars))

PhoneAbsentOrEmpty == san_in.kind = "None" \/ san_in.chars = <<>>

\* C18 as stated: sanitize_phone returns None if and only if its input is
\* absent or empty; for every non-empty input it returns the kept
\* characters, trimmed, which may be the empty string.
C18_NoneOnlyForAbsent ==
    SanPhoneCalled =>
        /\ san_out = NoneText <=> PhoneAbsentOrEmpty
        /\ ~PhoneAbsentOrEmpty => san_out = Str(Strip(PhoneKept(san_in.chars)))

\* C18 amended: sanitize_phone returns None if and only if its input is
\* absent or empty or none of its characters is kept; otherwise it returns
\* the kept characters, trimmed, which is the empty string when only
\* whitespace is kept.
C18_NoneWhenNothingKept ==
    SanPhoneCalled =>
        /\ san_out = NoneText <=>
               (PhoneAbsentOrEmpty \/ PhoneKept(san_in.chars) = <<>>)
        /\ (~PhoneAbsentOrEmpty /\ PhoneKept(san_in.chars) # <<>>) =>
               san_out = Str(Strip(PhoneKept(san_in.chars)))

\* sanitize_phone returned None for a text made only of letters, and the
\* empty string is what it returns for a text whose kept part is blank.
C18_Witness ==
    /\ SanPhoneCalled
    /\ san_in = Str(<<"a", "a">>)
    /\ san_out = NoneText
    /\ sanitize_phone(Str(<<" ", "a">>)) = Str(<<>>)

(***************************************************************************)
(* Rate limiter: sliding window                                            *)
(***************************************************************************)
\* Calls admitted for key at instants in the interval (t - 900 s, t].
AdmittedInInterval(key, t) ==
    Cardinality({i \in 1..Len(admitted[key]) :
                    admitted[key][i] > t - window_ticks /\ admitted[key][i] <= t})

\* C21: with rate limiting enabled and calls made one after the other on
\* a non-decreasing clock, for every key with limit L and every instant t
\* at most L check_rate_limit calls for the key were allowed at instants
\* in (t - 900 s, t].
C21_SlidingWindowBound ==
    settings.RATE_LIMIT_ENABLED =>
        \A p \in Pairs : \A t \in RLInstants :
            Key(p[1], p[2]) \in DOMAIN admitted
            => AdmittedInInterval(Key(p[1], p[2]), t) <= get_limit(p[2])

\* C21 witness: a key with limit L >= 1 has had more than L calls allowed
\* in all, exactly L of them inside the window that ends now, and the call
\* just made for it was denied.
C21_Witness ==
    LET key == Key(rl_last.ip, rl_last.endpoint)
    IN /\ rl_last.op = "check"
       /\ ~rl_last.allowed /\ ~rl_last.raised
       /\ settings.RATE_LIMIT_ENABLED
       /\ get_limit(rl_last.endpoint) >= 1
       /\ key \in DOMAIN admitted
       /\ Len(admitted[key]) > get_limit(rl_last.endpoint)
       /\ AdmittedInInterval(key, now) = get_limit(rl_last.endpoint)

(***************************************************************************)
(* Rate limiter called from several threads                                *)
(*                                                                         *)
(* check_rate_limit takes no lock.  Each thread runs the statements of     *)
(* lines 37-66 in order; between two statements another thread may run     *)
(* when calls interleave.  self.requests[key] names a list object: the     *)
(* assignments of lines 49 and 52 bind the key to a new list, and          *)
(* bindings[key] counts them, so that an append to a list the key no       *)
(* longer names is seen to be lost.                                        *)
(***************************************************************************)
\* Calls the threads make in a run, all threads together.
MaxThreadCalls == 3

\* The (client, endpoint) pair the threads call for: one key, whose limit
\* the environment configures.
ThreadPairs == {<< <<"a">>, <<"/health">> >>}

\* Instants time.time() returns to the threads: a request made at 0 is
\* inside the window at the second and outside it at the third.
ThInstants == {0, window_ticks - 1, window_ticks}

ThKey(th) == Key(threads[th].ip, threads[th].endpoint)

\* Mutant of CanStart: a call starts whatever the other threads are doing.
CanStart_Always(th) == TRUE

RECURSIVE SumCalls(_)
SumCalls(ths) ==
    IF ths = {} THEN 0
    ELSE LET th == CHOOSE x \in ths : TRUE
         IN threads[th].calls + SumCalls(ths \ {th})


\* A call may start while another is running only when calls interleave.
CanStart(th) ==
    interleaved \/ \A other \in Threads \ {th} : threads[other].pc = "idle"

\* The thread moves on to pc with the given locals changed.
Goto(th, pc, changes) ==
    [threads EXCEPT ![th] =
        [f \in DOMAIN IdleThread |->
            IF f = "pc" THEN pc
            ELSE IF f \in DOMAIN changes THEN changes[f] ELSE threads[th][f]]]

Bind(key) == Put(bindings, key, IF key \in DOMAIN bindings THEN bindings[key] + 1 ELSE 1)

ThInit ==
    /\ settings \in {c \in SettingsChoices : c.RATE_LIMIT_ENABLED}
    /\ requests = EmptyStore
    /\ now = 0
    /\ admitted = EmptyStore
    /\ rl_last = NoCall
    /\ threads = [th \in Threads |-> IdleThread]
    /\ interleaved \in BOOLEAN
    /\ bindings = EmptyStore

\* Lines 34-45: the enabled test, limit, key, now and window_start.  The
\* clock is read here only, so it moves on to the instant t that
\* time.time() returns.
ThStart(th, ip, endpoint, t) ==
    /\ threads[th].pc = "idle"
    /\ SumCalls(Threads) < MaxThreadCalls
    /\ CanStart(th)
    /\ t >= now
    /\ now' = t
    /\ threads' = [threads EXCEPT ![th] =
                      [IdleThread EXCEPT !.pc = "init", !.ip = ip,
                                         !.endpoint = endpoint, !.now = t,
                                         !.calls = threads[th].calls + 1]]
    /\ UNCHANGED <<settings, requests, admitted, rl_last, interleaved, bindings,
                   csrf_vars, q_vars, san_vars, h_vars>>

\* Line 48: if key not in self.requests
ThInitKey(th) ==
    /\ threads[th].pc = "init"
    /\ threads' = Goto(th, IF ThKey(th) \in DOMAIN requests THEN "read" ELSE "create",
                       <<>>)
    /\ UNCHANGED <<rl_vars, interleaved, bindings, csrf_vars, q_vars, san_vars, h_vars>>

\* Line 49: self.requests[key] = []
ThCreate(th) ==
    /\ threads[th].pc = "create"
    /\ requests' = Put(requests, ThKey(th), <<>>)
    /\ bindings' = Bind(ThKey(th))
    /\ threads' = Goto(th, "read", <<>>)
    /\ UNCHANGED <<settings, now, admitted, rl_last, interleaved,
                   csrf_vars, q_vars, san_vars, h_vars>>

\* Lines 52-55, right-hand side: the list is read and filtered.
ThRead(th) ==
    /\ threads[th].pc = "read"
    /\ threads' = Goto(th, "write",
                       [local |-> Prune(requests[ThKey(th)],
                                        threads[th].now - window_ticks)])
    /\ UNCHANGED <<rl_vars, interleaved, bindings, csrf_vars, q_vars, san_vars, h_vars>>

\* Line 52: the filtered list is bound to the key.
ThWrite(th) ==
    /\ threads[th].pc = "write"
    /\ requests' = Put(requests, ThKey(th), threads[th].local)
    /\ bindings' = Bind(ThKey(th))
    /\ threads' = Goto(th, "test", <<>>)
    /\ UNCHANGED <<settings, now, admitted, rl_last, interleaved,
                   csrf_vars, q_vars, san_vars, h_vars>>

\* Line 58: if len(self.requests[key]) >= limit
ThTest(th) ==
    /\ threads[th].pc = "test"
    /\ threads' = Goto(th, IF Len(requests[ThKey(th)]) >= get_limit(threads[th].endpoint)
                           THEN "deny" ELSE "load", <<>>)
    /\ UNCHANGED <<rl_vars, interleaved, bindings, csrf_vars, q_vars, san_vars, h_vars>>

\* Lines 59-61: min() of the list, which raises when the list is empty.
ThDeny(th) ==
    /\ threads[th].pc = "deny"
    /\ threads' =
          IF requests[ThKey(th)] = <<>>
          THEN Goto(th, "idle", [raised |-> TRUE])
          ELSE Goto(th, "idle",
                    [retry_after |->
                        Max(IntSeconds(MinOf(requests[ThKey(th)]) + window_ticks
                                         - threads[th].now), 0)])
    /\ UNCHANGED <<rl_vars, interleaved, bindings, csrf_vars, q_vars, san_vars, h_vars>>

\* Line 64, self.requests[key]: the list the key names now is loaded.
ThLoad(th) ==
    /\ threads[th].pc = "load"
    /\ threads' = Goto(th, "append", [ref |-> bindings[ThKey(th)]])
    /\ UNCHANGED <<rl_vars, interleaved, bindings, csrf_vars, q_vars, san_vars, h_vars>>

\* Lines 64-66: .append(now) on the loaded list, and return True, 0.  The
\* append shows in the store only if the key still names that list.
ThAppend(th) ==
    /\ threads[th].pc = "append"
    /\ requests' =
          IF threads[th].ref = bindings[ThKey(th)]
          THEN Put(requests, ThKey(th), Append(requests[ThKey(th)], threads[th].now))
          ELSE requests
    /\ admitted' =
          Put(admitted, ThKey(th),
              Append(IF ThKey(th) \in DOMAIN admitted THEN admitted[ThKey(th)] ELSE <<>>,
                     threads[th].now))
    /\ threads' = Goto(th, "idle", [allowed |-> TRUE])
    /\ UNCHANGED <<settings, now, rl_last, interleaved, bindings,
                   csrf_vars, q_vars, san_vars, h_vars>>

ThNext ==
    \/ \E th \in Threads : \E p \in ThreadPairs : \E t \in ThInstants :
          ThStart(th, p[1], p[2], t)
    \/ \E th \in Threads : ThInitKey(th)
    \/ \E th \in Threads : ThCreate(th)
    \/ \E th \in Threads : ThRead(th)
    \/ \E th \in Threads : ThWrite(th)
    \/ \E th \in Threads : ThTest(th)
    \/ \E th \in Threads : ThDeny(th)
    \/ \E th \in Threads : ThLoad(th)
    \/ \E th \in Threads : ThAppend(th)

ThSpecInit == ThInit /\ CsrfIdle /\ QIdle /\ SanIdle /\ HIdle

SpecRateLimiterThreads == ThSpecInit /\ [][ThNext]_vars

(***************************************************************************)
(* Rate limiter called from several threads: properties                    *)
(***************************************************************************)
\* The step ends a call of thread th.
ThReturns(th) == threads[th].pc # "idle" /\ threads'[th].pc = "idle"

AllIdle == \A th \in Threads : threads[th].pc = "idle"

\* The admitted calls of key, or none.
AdmittedOf(key) == IF key \in DOMAIN admitted THEN admitted[key] ELSE <<>>

\* With one call running to completion before the next starts, every
\* call leaves in the window of its key exactly the admitted requests of
\* the last 900 seconds, never more than the limit.
C22_SequentialWindowExact ==
    [][\A th \in Threads :
          (~interleaved /\ ThReturns(th))
          => LET key == ThKey(th)
                 window_start == threads[th].now - window_ticks
             IN /\ requests'[key] =
                      SelectSeq(IF key \in DOMAIN admitted'
                                THEN admitted'[key] ELSE <<>>,
                                LAMBDA a : a > window_start)
                /\ Len(requests'[key]) <= get_limit(threads[th].endpoint)]_vars

\* C22, interleaved calls: both threads were allowed for the same key at
\* the same instant although its limit is 1, so only one slot remained.
C22_Witness ==
    /\ interleaved
    /\ AllIdle
    /\ settings.RATE_LIMIT_HEALTH = 1
    /\ \A th \in Threads : threads[th].allowed /\ threads[th].calls = 1
    /\ \A th, other \in Threads :
          ThKey(th) = ThKey(other) /\ threads[th].now = threads[other].now

\* C22, interleaved calls: a call was allowed at an instant inside the
\* window, and its timestamp is not in the window of the key.
C22_TimestampLost ==
    /\ interleaved
    /\ AllIdle
    /\ \E th \in Threads :
          /\ threads[th].allowed
          /\ threads[th].now > now - window_ticks
          /\ \A i \in 1..Len(requests[ThKey(th)]) :
                requests[ThKey(th)][i] # threads[th].now

\* C22: check_rate_limit is an unsynchronised read-modify-write; with one
\* call running to completion before the next starts, no call that was
\* allowed inside the window is missing from the window of its key and no
\* key has more than its limit of calls allowed in any 900 seconds (the
\* states C22_Witness and C22_TimestampLost, reached when calls
\* interleave, are not reached).
C22_SequentialNoRace ==
    ~interleaved =>
        /\ \A th \in Threads :
              (threads[th].pc = "idle" /\ threads[th].allowed
                  /\ threads[th].now > now - window_ticks)
              => \E i \in 1..Len(requests[ThKey(th)]) :
                    requests[ThKey(th)][i] = threads[th].now
        /\ \A p \in ThreadPairs : \A t \in ThInstants :
              Cardinality({i \in 1..Len(AdmittedOf(Key(p[1], p[2]))) :
                              /\ AdmittedOf(Key(p[1], p[2]))[i] > t - window_ticks
                              /\ AdmittedOf(Key(p[1], p[2]))[i] <= t})
                  <= get_limit(p[2])

(***************************************************************************)
(* Rate limiter: retry_after                                               *)
(***************************************************************************)
\* The step is a check_rate_limit call that was denied (and returned).
RLDenyStep ==
    /\ RLCheckStep
    /\ settings.RATE_LIMIT_ENABLED
    /\ ~rl_last'.raised
    /\ ~rl_last'.allowed

\* What the next check_rate_limit call for the key of the last call
\* returns when it is made the given number of seconds after now, nothing
\* having been admitted for the key in between.
CheckAfter(seconds) ==
    check_rate_limit(requests', now + seconds * TicksPerSecond,
                     rl_last'.ip, rl_last'.endpoint)

\* C23: the retry_after of a deny is sufficient: when check_rate_limit
\* denies a key at time t with retry_after = r, a call for the same key at
\* t + r, no request having been admitted for the key in between, is
\* allowed.
C23_RetryAfterSufficient ==
    [][RLDenyStep
       => (CheckAfter(rl_last'.retry_after).allowed
             /\ ~CheckAfter(rl_last'.retry_after).raised)]_vars

\* What the code does keep: a call one second after t + r is allowed.
C23_OneSecondLaterSufficient ==
    [][RLDenyStep
       => (CheckAfter(rl_last'.retry_after + 1).allowed
             /\ ~CheckAfter(rl_last'.retry_after + 1).raised)]_vars

(***************************************************************************)
(* Request handlers: submit_assessment (routers/assessment.py) and         *)
(* send_results (routers/email.py)                                         *)
(*                                                                         *)
(* The database is the three collections the handlers write.  A document   *)
(* carries the fields the handlers' answers and the other handler depend   *)
(* on.  uuid.uuid4() is taken to return a value it has not returned        *)
(* before: identifiers are numbered in the order they are produced.        *)
(***************************************************************************)
\* Handler calls in one run.
MaxHandlerCalls == 2

COMPLETED == "completed"
LeadNEW == "new"
SENT == "sent"
FAILED == "failed"

\* What the email provider does with a send: it returns a message id, or
\* it raises an exception with the given message.
ProviderOutcomes == {"ok", "smtp down"}

\* The database operation of the call that raises, if any.
SubmitDbFaults == {"none", "get_database", "assessments.insert_one", "leads.insert_one"}
SendDbFaults == {"none", "get_database", "assessments.find_one", "email_logs.insert_one"}

\* request.assessment.goals
GoalsValues == {NoneText, Str(<<" ", "a", "<">>)}

\* request.assessment.hasBudget, budgetRange and urgency: answers of each
\* verdict.
SubmitAnswers ==
    [has_budget : {PyTrue, PyFalse}, budget_range : {"over-30k", None},
     urgency : {"immediate", None}]

\* HTTPException(status_code, detail) and the success responses.
Answer(status, error) == [status |-> status, error |-> error]

\* submit_assessment on the stored documents: the documents it leaves, the
\* identifiers consumed and its answer.
submit_assessment(stored, stored_leads, ids, answers, goals, db) ==
    LET assessment_id == ids + 1
        lead_id == ids + 2
        qualification_status ==
            determine_qualification_status(answers.has_budget, answers.budget_range,
                                           answers.urgency)
        sanitized_goals ==
            IF goals.kind = "str" /\ goals.chars # <<>>
            THEN sanitize_text(goals, DefaultMaxLength) ELSE NoneText
        assessment_doc ==
            [assessmentId |-> assessment_id, goals |-> sanitized_goals,
             qualificationStatus |-> qualification_status, status |-> COMPLETED]
        lead_doc ==
            [leadId |-> lead_id, assessmentId |-> assessment_id, status |-> LeadNEW,
             qualificationStatus |-> qualification_status]
        failed == Answer(500, "Failed to save assessment. Please try again.")
    IN IF db \in {"get_database", "assessments.insert_one"}
       THEN [assessments |-> stored, leads |-> stored_leads, uuids |-> ids + 2,
             answer |-> failed, assessmentId |-> assessment_id]
       ELSE IF db = "leads.insert_one"
       THEN [assessments |-> stored \cup {assessment_doc}, leads |-> stored_leads,
             uuids |-> ids + 2, answer |-> failed, assessmentId |-> assessment_id]
       ELSE [assessments |-> stored \cup {assessment_doc},
             leads |-> stored_leads \cup {lead_doc}, uuids |-> ids + 2,
             answer |-> Answer(200, ""), assessmentId |-> assessment_id]

\* send_results on the stored documents: the email logs it leaves, the
\* identifiers consumed and its answer.  "except Exception as email_error"
\* unbinds email_error when the except clause ends, so on the failure path
\* str(email_error) raises UnboundLocalError, which the outer handler
\* turns into the unexpected-error answer before anything is inserted.
send_results(stored, logs, ids, enabled, assessmentId, provider, db) ==
    LET unexpected == Answer(500, "An unexpected error occurred. Please try again.")
        message_id == ids + 1
        email_status == IF provider = "ok" THEN SENT ELSE FAILED
        email_error_bound == FALSE
        email_log ==
            [messageId |-> message_id, assessmentId |-> assessmentId,
             status |-> email_status,
             providerMessageId |-> IF provider = "ok" THEN "provider-id" ELSE None,
             error |-> IF email_status = FAILED THEN [message |-> provider] ELSE None]
    IN IF ~enabled
       THEN [email_logs |-> logs, uuids |-> ids,
             answer |-> Answer(503, "Email functionality is currently disabled")]
       ELSE IF db \in {"get_database", "assessments.find_one"}
       THEN [email_logs |-> logs, uuids |-> ids, answer |-> unexpected]
       ELSE IF ~\E a \in stored : a.assessmentId = assessmentId
       THEN [email_logs |-> logs, uuids |-> ids,
             answer |-> Answer(404, "Assessment not found")]
       ELSE IF email_status = FAILED /\ ~email_error_bound
       THEN [email_logs |-> logs, uuids |-> ids + 1, answer |-> unexpected]
       ELSE IF db = "email_logs.insert_one"
       THEN [email_logs |-> logs, uuids |-> ids + 1, answer |-> unexpected]
       ELSE IF email_status = FAILED
       THEN [email_logs |-> logs \cup {email_log}, uuids |-> ids + 1,
             answer |-> Answer(500, "Failed to send email. Please try again.")]
       ELSE [email_logs |-> logs \cup {email_log}, uuids |-> ids + 1,
             answer |-> Answer(200, "")]

\* Assessment identifiers a client may ask results for: those stored and
\* one that was never produced.
RequestedIds == {a.assessmentId : a \in assessments} \cup {0}

HInit ==
    /\ assessments = {}
    /\ leads = {}
    /\ email_logs = {}
    /\ uuids = 0
    /\ enable_email_results \in BOOLEAN
    /\ response = NoResponse

SubmitAssessment(answers, goals, db) ==
    /\ response.calls < MaxHandlerCalls
    /\ LET r == submit_assessment(assessments, leads, uuids, answers, goals, db)
       IN /\ assessments' = r.assessments
          /\ leads' = r.leads
          /\ uuids' = r.uuids
          /\ response' = [handler |-> "submit_assessment", status |-> r.answer.status,
                          error |-> r.answer.error, assessmentId |-> r.assessmentId,
                          provider |-> "", db |-> db, calls |-> response.calls + 1]
    /\ UNCHANGED <<email_logs, enable_email_results,
                   rl_vars, csrf_vars, q_vars, san_vars, th_vars>>

SendResults(assessmentId, provider, db) ==
    /\ response.calls < MaxHandlerCalls
    /\ LET r == send_results(assessments, email_logs, uuids, enable_email_results,
                             assessmentId, provider, db)
       IN /\ email_logs' = r.email_logs
          /\ uuids' = r.uuids
          /\ response' = [handler |-> "send_results", status |-> r.answer.status,
                          error |-> r.answer.error, assessmentId |-> assessmentId,
                          provider |-> provider, db |-> db,
                          calls |-> response.calls + 1]
    /\ UNCHANGED <<assessments, leads, enable_email_results,
                   rl_vars, csrf_vars, q_vars, san_vars, th_vars>>

HNext ==
    \/ \E answers \in SubmitAnswers : \E goals \in GoalsValues :
       \E db \in SubmitDbFaults :
          SubmitAssessment(answers, goals, db)
    \/ \E id \in RequestedIds : \E provider \in ProviderOutcomes :
          \E db \in SendDbFaults : SendResults(id, provider, db)

HSpecInit == HInit /\ RLIdle /\ CsrfIdle /\ QIdle /\ SanIdle /\ ThIdle

SpecHandlers == HSpecInit /\ [][HNext]_vars

(***************************************************************************)
(* Request handlers: properties                                            *)
(***************************************************************************)
\* The step is a send_results call that reached the email provider: the
\* feature is enabled, the database works and the assessment exists.
SendAttemptStep ==
    /\ response'.calls = response.calls + 1
    /\ response'.handler = "send_results"
    /\ enable_email_results
    /\ response'.db = "none"
    /\ \E a \in assessments : a.assessmentId = response'.assessmentId

\* C24: send_results logs every send attempt for an existing assessment:
\* whether the provider succeeds or raises, exactly one email-log document
\* is inserted, with status SENT on success and with status FAILED and the
\* provider's error message on failure, and a failed attempt then answers
\* HTTP 500 'Failed to send email. Please try again.'.
C24_EveryAttemptLogged ==
    [][SendAttemptStep
       => \E doc \in email_logs' :
             /\ doc \notin email_logs
             /\ email_logs' = email_logs \cup {doc}
             /\ doc.assessmentId = response'.assessmentId
             /\ IF response'.provider = "ok"
                THEN doc.status = SENT /\ response'.status = 200
                ELSE /\ doc.status = FAILED
                     /\ doc.error = [message |-> response'.provider]
                     /\ response'.status = 500
                     /\ response'.error = "Failed to send email. Please try again."]_vars

\* What the code does keep: a successful send is logged once, as SENT.
C24_SuccessLogged ==
    [][(SendAttemptStep /\ response'.provider = "ok")
       => \E doc \in email_logs' :
             /\ doc \notin email_logs
             /\ email_logs' = email_logs \cup {doc}
             /\ doc.assessmentId = response'.assessmentId
             /\ doc.status = SENT
             /\ response'.status = 200]_vars

\* A completed assessment is stored for id exactly when a lead refers to
\* id, and the two carry the same qualification status.
Paired(stored, stored_leads) ==
    \A id \in {a.assessmentId : a \in stored} \cup {l.assessmentId : l \in stored_leads} :
        /\ (\E a \in stored : a.assessmentId = id /\ a.status = COMPLETED)
              <=> (\E l \in stored_leads : l.assessmentId = id)
        /\ \A a \in stored : \A l \in stored_leads :
              (a.assessmentId = id /\ l.assessmentId = id)
              => a.qualificationStatus = l.qualificationStatus

SubmitStep ==
    /\ response'.calls = response.calls + 1
    /\ response'.handler = "submit_assessment"

\* C25: submit_assessment persists the assessment and its lead together:
\* after any call, one that answers HTTP 500 because a database write
\* failed included, a completed assessment with a given assessmentId is
\* stored if and only if a lead referring to it is stored, both with the
\* same qualification status, and a failed call leaves neither document.
C25_AssessmentAndLeadTogether ==
    [][SubmitStep
       => /\ Paired(assessments', leads')
          /\ response'.status = 500
                => (assessments' = assessments /\ leads' = leads)]_vars

\* What the code does keep: a call that answers 200 stores both documents.
C25_SuccessStoresBoth ==
    [][(SubmitStep /\ response'.status = 200)
       => /\ \E a \in assessments' \ assessments :
                \E l \in leads' \ leads :
                   /\ a.assessmentId = response'.assessmentId
                   /\ l.assessmentId = a.assessmentId
                   /\ a.status = COMPLETED
                   /\ a.qualificationStatus = l.qualificationStatus]_vars

====
